---- MODULE Spec2Model ----
(***************************************************************************)
(* Model of converter.py: the per-message pipeline process_message, the    *)
(* three MongoDB collections it uses, the shortening service and the       *)
(* thread pool that runs several invocations in parallel.                  *)
(*                                                                         *)
(* Text is a sequence of symbols.  A symbol is one character, except for   *)
(* three kinds of multi-character units that the code only ever treats as  *)
(* a unit: "H" is the scheme prefix "https://", "v" is the configured      *)
(* domain "viralbox.in", "o" is another host name, and each command name   *)
(* ("/set_api", ...) is one symbol (no command name is a prefix of         *)
(* another, so str.startswith on the text is a test of the first symbol).  *)
(* " " and "\n" are the whitespace characters.                             *)
(*                                                                         *)
(* An optional value (Python None / a missing document or field) is a      *)
(* sequence of length 0 or 1: <<>> is None, <<x>> is x.                    *)
(*                                                                         *)
(* Store operations are modelled as succeeding: the except-branches of the *)
(* database helpers (a lost connection) are outside this model.            *)
(***************************************************************************)
EXTENDS Integers, Sequences, FiniteSets, TLC

\* Largest number of whitespace-separated words in a message text.
MaxWords == 3

VARIABLES
    msg,                \* msg[p]: the inbound message invocation p handles
    pc,                 \* pc[p]: position of invocation p in process_message
    user_apis_col,      \* collection user_apis: user id -> optional apiKey
    user_settings_col,  \* collection user_settings: user id -> document
    links_col,          \* collection links: sequence of {shortURL, longURL}
    shortener,          \* the shortening service: <<apiKey, longURL>> -> optional URL
    user_api,           \* locals of process_message, one per invocation
    settings,
    original_text,
    urls,
    idx,                \* position of the for-loop over urls
    longURL,
    newShort,
    url_mapping,
    converted_links,
    sent,               \* sent[p]: the outbound Telegram calls of invocation p
    lookups,            \* lookups[p]: the find_long_url calls of p, with results
    shortened,          \* shortened[p]: the short_with_user_token calls of p
    saved,              \* saved[p]: the documents p inserted into links
    touched,            \* touched[p]: the user ids p used as a store key
    apis0,              \* the three collections as they were at the start
    settings0,
    links0

stores == <<user_apis_col, user_settings_col, links_col>>
env    == <<msg, shortener, apis0, settings0, links0>>
locals == <<user_api, settings, original_text, urls, idx, longURL, newShort,
            url_mapping, converted_links>>
calls  == <<lookups, shortened, saved>>
vars   == <<stores, env, locals, calls, pc, sent, touched>>

Procs == {1, 2}
Users == {1, 2}
GroupChat == {3}
Ids == Users \cup GroupChat

----------------------------------------------------------------------------
\* Strings

IsSpace(c) == c \in {" ", "\n"}

Min(S) == CHOOSE x \in S : \A y \in S : x <= y
Max(S) == CHOOSE x \in S : \A y \in S : x >= y

\* Index of the first whitespace symbol of t at or after j, Len(t)+1 if none.
NextSpace(t, j) ==
    LET S == {k \in j..Len(t) : IsSpace(t[k])}
    IN  IF S = {} THEN Len(t) + 1 ELSE Min(S)

\* Index of the first non-whitespace symbol of t at or after j, Len(t)+1 if none.
NextNonSpace(t, j) ==
    LET S == {k \in j..Len(t) : ~IsSpace(t[k])}
    IN  IF S = {} THEN Len(t) + 1 ELSE Min(S)

\* str.strip()
strip(t) ==
    LET S == {k \in 1..Len(t) : ~IsSpace(t[k])}
    IN  IF S = {} THEN <<>> ELSE SubSeq(t, Min(S), Max(S))

\* str.split(maxsplit=1): the first whitespace-delimited token and, when
\* anything but whitespace follows it, the rest of the text after the
\* whitespace run (trailing whitespace kept).
split_maxsplit1(t) ==
    LET a == NextNonSpace(t, 1)
        b == NextSpace(t, a)
        c == NextNonSpace(t, b)
    IN  IF a > Len(t) THEN <<>>
        ELSE IF c > Len(t) THEN <<SubSeq(t, a, b - 1)>>
        ELSE <<SubSeq(t, a, b - 1), SubSeq(t, c, Len(t))>>

\* A split that cuts at every whitespace run: the argument is one word.
split_every(t) ==
    LET p == split_maxsplit1(t)
    IN  IF Len(p) < 2 THEN p
        ELSE <<p[1], SubSeq(p[2], 1, NextSpace(p[2], 1) - 1)>>

\* parts = text.split(maxsplit=1) of the /set_* handlers
command_parts(t) == split_maxsplit1(t)

\* text.startswith(cmd)
startswith(t, cmd) == Len(t) >= 1 /\ t[1] = cmd

RECURSIVE join(_, _)
\* sep.join(parts)
join(parts, sep) ==
    IF parts = <<>> THEN <<>>
    ELSE IF Len(parts) = 1 THEN parts[1]
    ELSE parts[1] \o sep \o join(Tail(parts), sep)

RECURSIVE str_replace(_, _, _)
\* str.replace(old, new): every non-overlapping occurrence, left to right
str_replace(s, old, new) ==
    IF Len(s) < Len(old) \/ old = <<>> THEN s
    ELSE IF SubSeq(s, 1, Len(old)) = old
         THEN new \o str_replace(SubSeq(s, Len(old) + 1, Len(s)), old, new)
         ELSE <<s[1]>> \o str_replace(Tail(s), old, new)

\* Python truthiness of an optional string: not None and not empty
truthy(opt) == opt # <<>> /\ opt[1] # <<>>

----------------------------------------------------------------------------
\* Helpers of converter.py

RECURSIVE findall(_, _)
\* re.findall(r"(https?://[^\s]+)", text) from position j on
findall(t, j) ==
    IF j > Len(t) THEN <<>>
    ELSE IF t[j] = "H" /\ j + 1 <= Len(t) /\ ~IsSpace(t[j + 1])
         THEN <<SubSeq(t, j, NextSpace(t, j + 1) - 1)>>
                  \o findall(t, NextSpace(t, j + 1))
         ELSE findall(t, j + 1)

extract_urls(text) == IF text = <<>> THEN <<>> ELSE findall(text, 1)

\* urlparse(url).hostname: what stands between the scheme and the first "/"
hostname(url) ==
    LET S == {k \in 2..Len(url) : url[k] = "/"}
        e == IF S = {} THEN Len(url) ELSE Min(S) - 1
    IN  SubSeq(url, 2, e)

Range(s) == {s[k] : k \in 1..Len(s)}

\* The domain test made on the whole URL instead of its host name.
is_viralbox_anywhere(url) == "v" \in Range(url)

\* VIRALBOX_DOMAIN in u.hostname (False when there is no host name)
is_viralbox(url) == "v" \in Range(hostname(url))

\* url_mapping[url] = newShort on an insertion-ordered dict, kept as a
\* sequence of <<key, value>>: an existing key keeps its place.
dict_set(d, k, v) ==
    IF \E j \in 1..Len(d) : d[j][1] = k
    THEN [j \in 1..Len(d) |-> IF d[j][1] = k THEN <<k, v>> ELSE d[j]]
    ELSE Append(d, <<k, v>>)

RECURSIVE replace_all_from(_, _, _)
replace_all_from(text, d, j) ==
    IF j > Len(d) THEN text
    ELSE replace_all_from(str_replace(text, d[j][1], d[j][2]), d, j + 1)

replace_urls_in_text(text, mapping) ==
    IF text = <<>> THEN text ELSE replace_all_from(text, mapping, 1)

\* The body of an outbound message: which text it is, and what it quotes.
Body(kind, arg) == [kind |-> kind, arg |-> arg]

send_message(chat_id, body) ==
    [method |-> "sendMessage", chat_id |-> chat_id, body |-> body, file_id |-> ""]

send_media(chat_id, mtype, file_id, body) ==
    [method |-> mtype, chat_id |-> chat_id, body |-> body, file_id |-> file_id]

----------------------------------------------------------------------------
\* Database functions

NoDoc == [exists |-> FALSE, header |-> <<>>, footer |-> <<>>, keep_text |-> <<>>]

save_api_key(col, user_id, apikey) == [col EXCEPT ![user_id] = <<apikey>>]

get_api_key(col, user_id) == col[user_id]

save_user_setting(col, user_id, key, value) ==
    [col EXCEPT ![user_id] = [@ EXCEPT !.exists = TRUE, ![key] = <<value>>]]

\* A delete that removes the user's whole document.
delete_user_document(col, user_id, key) == [col EXCEPT ![user_id] = NoDoc]

\* update_one with $unset and no upsert: nothing happens without a document
delete_user_setting(col, user_id, key) ==
    IF col[user_id].exists THEN [col EXCEPT ![user_id][key] = <<>>] ELSE col

get_user_settings(col, user_id) ==
    LET doc == col[user_id]
    IN  IF ~doc.exists
        THEN [header |-> <<>>, footer |-> <<>>, keep_text |-> FALSE]
        ELSE [header |-> doc.header, footer |-> doc.footer,
              keep_text |-> IF doc.keep_text = <<>> THEN FALSE
                                                  ELSE doc.keep_text[1]]

LinkDoc(long, short) == [longURL |-> long, shortURL |-> short]

\* An insert with the two URLs in each other's field.
save_converted_swapped(col, long, short) == Append(col, LinkDoc(short, long))

\* links_col.insert_one({"longURL": longURL, "shortURL": shortURL})
save_converted(col, long, short) == Append(col, LinkDoc(long, short))

\* find_one({"shortURL": shortURL}): the first matching document in
\* insertion order, its longURL
find_long_url(col, shortURL) ==
    LET S == {k \in 1..Len(col) : col[k].shortURL = shortURL}
    IN  IF S = {} THEN <<>> ELSE <<col[Min(S)].longURL>>

\* The service answers for the keys and URLs it knows; any other call is a
\* response without status "success", and the function returns None.
short_with_user_token(apiKey, long) ==
    IF <<apiKey, long>> \in DOMAIN shortener THEN shortener[<<apiKey, long>>]
    ELSE <<>>

----------------------------------------------------------------------------
\* The data of the model

U1 == <<"H", "v", "/", "a">>          \* a viralbox link, in the link store
U2 == <<"H", "v", "/", "a", "b">>     \* another one, which U1 is a prefix of
U3 == <<"H", "v", "/", "c">>          \* a viralbox link the store does not hold
O1 == <<"H", "o", "/", "v">>          \* a link of another host
W  == <<"w">>                         \* a word that is no link
S1 == <<"H", "v", "/", "s">>          \* the links the shortening service mints
S2 == <<"H", "v", "/", "t">>
L1 == <<"H", "x", "/", "1">>          \* long URLs
L2 == <<"H", "x", "/", "2">>
K1 == <<"k", "1">>                    \* API keys
K2 == <<"k", "2">>
Hdr == <<"h", " ", "h">>
Ftr == <<"f">>

Words == {U1, U2, U3, O1, W}
Longs == {L1, L2}
Keys  == {K1, K2}

Commands == {"/start", "/help", "/set_api", "/set_header", "/delete_header",
             "/set_footer", "/delete_footer", "/keep_text", "/delete_text"}

\* The texts of up to MaxWords words, separated by one space
WordTexts ==
    {join(ws, <<" ">>) : ws \in UNION {[1..k -> Words] : k \in 0..MaxWords}}

\* What may follow a command name in a message
Suffixes == {<<>>, <<" ">>, <<"x">>, <<" ", "x">>, <<" ", "x", " ", "y">>,
             <<" ", "\n", "x", "\n">>, <<" ">> \o U1}

CommandTexts == {<<c>> \o s : c \in Commands, s \in Suffixes}

NoMedia == [type |-> "none", files |-> <<>>]
Photo   == [type |-> "photo", files |-> <<"p1", "p2">>]
Video   == [type |-> "video", files |-> <<"v1">>]

TextMessage(chat, user, text) ==
    [chat |-> chat, user |-> user, text |-> text, media |-> NoMedia,
     caption |-> <<>>]

MediaMessage(chat, user, media, caption) ==
    [chat |-> chat, user |-> user, text |-> <<>>, media |-> media,
     caption |-> caption]

\* The settings documents a user can have built with the commands
SettingsDocs ==
    {NoDoc} \cup
    [exists : {TRUE}, header : {<<>>, <<Hdr>>}, footer : {<<>>, <<Ftr>>},
     keep_text : {<<>>, <<TRUE>>, <<FALSE>>}]

InitialLinks == <<LinkDoc(L1, U1), LinkDoc(L2, U2)>>

\* What the service answers for each long URL (<<>>: the call fails)
Rows == {[l \in Longs |-> IF l = L1 THEN a ELSE b] :
            <<a, b>> \in {<<<<S1>>, <<S2>>>>, <<<<S1>>, <<S1>>>>,
                          <<<<>>, <<S2>>>>, <<<<S1>>, <<>>>>}}

Table(row1, row2) ==
    [kl \in Keys \X Longs |-> IF kl[1] = K1 THEN row1[kl[2]] ELSE row2[kl[2]]]

BothSucceed == [l \in Longs |-> IF l = L1 THEN <<S1>> ELSE <<S2>>]

----------------------------------------------------------------------------
\* Initial states

InitLocals ==
    /\ user_api = [p \in Procs |-> <<>>]
    /\ settings = [p \in Procs |-> get_user_settings([u \in Ids |-> NoDoc], 1)]
    /\ original_text = [p \in Procs |-> <<>>]
    /\ urls = [p \in Procs |-> <<>>]
    /\ idx = [p \in Procs |-> 1]
    /\ longURL = [p \in Procs |-> <<>>]
    /\ newShort = [p \in Procs |-> <<>>]
    /\ url_mapping = [p \in Procs |-> <<>>]
    /\ converted_links = [p \in Procs |-> <<>>]
    /\ sent = [p \in Procs |-> <<>>]
    /\ lookups = [p \in Procs |-> <<>>]
    /\ shortened = [p \in Procs |-> <<>>]
    /\ saved = [p \in Procs |-> <<>>]
    /\ touched = [p \in Procs |-> {}]

InitSnapshot ==
    /\ apis0 = user_apis_col
    /\ settings0 = user_settings_col
    /\ links0 = links_col

\* One message, of user 1 in the private chat, on any state of that user's
\* documents; user 2 has a key and settings of its own.
SpecMessages ==
    {TextMessage(1, 1, t) : t \in WordTexts \cup CommandTexts}
        \cup {MediaMessage(1, 1, m, t) : m \in {Photo, Video}, t \in WordTexts}

Init ==
    /\ msg \in {[p \in Procs |-> IF p = 1 THEN m ELSE TextMessage(2, 2, <<>>)] :
                   m \in SpecMessages}
    /\ pc = [p \in Procs |-> IF p = 1 THEN "start" ELSE "idle"]
    /\ user_apis_col \in
           {[u \in Ids |-> IF u = 1 THEN k ELSE IF u = 2 THEN <<K2>> ELSE <<>>] :
               k \in {<<>>, <<K1>>}}
    /\ user_settings_col \in
           {[u \in Ids |-> IF u = 1 THEN d
                           ELSE IF u = 2 THEN [exists |-> TRUE, header |-> <<Ftr>>,
                                               footer |-> <<Hdr>>,
                                               keep_text |-> <<TRUE>>]
                           ELSE NoDoc] : d \in SettingsDocs}
    /\ links_col = InitialLinks
    /\ shortener \in {Table(r, BothSucceed) : r \in Rows}
    /\ InitLocals
    /\ InitSnapshot

----------------------------------------------------------------------------
\* process_message

\* user_id = msg["from"]["id"], mistaken for the chat id
user_id_of_chat(p) == msg[p].chat

user_id(p) == msg[p].user
chat_id(p) == msg[p].chat
text(p)    == msg[p].text

IsCommand(t) == Len(t) >= 1 /\ t[1] \in Commands

Touch(p) == touched' = [touched EXCEPT ![p] = @ \cup {user_id(p)}]

Send(p, m) == sent' = [sent EXCEPT ![p] = Append(@, m)]

\* send_message(chat_id, ...) followed by return
Reply(p, body) ==
    /\ Send(p, send_message(chat_id(p), body))
    /\ pc' = [pc EXCEPT ![p] = "done"]

CmdStart(p) ==
    /\ pc[p] = "start"
    /\ startswith(text(p), "/start")
    /\ Reply(p, IF truthy(get_api_key(user_apis_col, user_id(p)))
                THEN Body("send_a_link", <<>>)
                ELSE Body("welcome", <<>>))
    /\ Touch(p)
    /\ UNCHANGED <<stores, env, locals, calls>>

CmdHelp(p) ==
    /\ pc[p] = "start"
    /\ startswith(text(p), "/help")
    /\ Reply(p, Body("help", <<>>))
    /\ UNCHANGED <<stores, env, locals, calls, touched>>

CmdSetApi(p) ==
    /\ pc[p] = "start"
    /\ startswith(text(p), "/set_api")
    /\ LET parts == command_parts(text(p))
       IN  IF Len(parts) < 2
           THEN /\ Reply(p, Body("usage_set_api", <<>>))
                /\ UNCHANGED <<stores, touched>>
           ELSE /\ user_apis_col' =
                       save_api_key(user_apis_col, user_id(p), strip(parts[2]))
                /\ Touch(p)
                /\ Reply(p, Body("api_saved", <<>>))
                /\ UNCHANGED <<user_settings_col, links_col>>
    /\ UNCHANGED <<env, locals, calls>>

\* /set_header and /set_footer
SetField(p, cmd, key) ==
    /\ pc[p] = "start"
    /\ startswith(text(p), cmd)
    /\ LET parts == command_parts(text(p))
       IN  IF Len(parts) < 2
           THEN /\ Reply(p, Body("usage_" \o key, <<>>))
                /\ UNCHANGED <<stores, touched>>
           ELSE /\ user_settings_col' =
                       save_user_setting(user_settings_col, user_id(p), key,
                                         strip(parts[2]))
                /\ Touch(p)
                /\ Reply(p, Body(key \o "_saved", strip(parts[2])))
                /\ UNCHANGED <<user_apis_col, links_col>>
    /\ UNCHANGED <<env, locals, calls>>

\* /delete_header and /delete_footer
DeleteField(p, cmd, key) ==
    /\ pc[p] = "start"
    /\ startswith(text(p), cmd)
    /\ user_settings_col' = delete_user_setting(user_settings_col, user_id(p), key)
    /\ Touch(p)
    /\ Reply(p, Body(key \o "_deleted", <<>>))
    /\ UNCHANGED <<user_apis_col, links_col, env, locals, calls>>

\* /keep_text and /delete_text
SetKeepText(p, cmd, value) ==
    /\ pc[p] = "start"
    /\ startswith(text(p), cmd)
    /\ user_settings_col' =
           save_user_setting(user_settings_col, user_id(p), "keep_text", value)
    /\ Touch(p)
    /\ Reply(p, Body(IF value THEN "keep_text_on" ELSE "keep_text_off", <<>>))
    /\ UNCHANGED <<user_apis_col, links_col, env, locals, calls>>

CmdSetHeader(p)    == SetField(p, "/set_header", "header")
CmdDeleteHeader(p) == DeleteField(p, "/delete_header", "header")
CmdSetFooter(p)    == SetField(p, "/set_footer", "footer")
CmdDeleteFooter(p) == DeleteField(p, "/delete_footer", "footer")
CmdKeepText(p)     == SetKeepText(p, "/keep_text", TRUE)
CmdDeleteText(p)   == SetKeepText(p, "/delete_text", FALSE)

\* The text the URLs are taken from: the caption when the message carries an
\* attachment, the message text otherwise
resolved_text(m) == IF m.media.type # "none" THEN m.caption ELSE m.text

\* msg[t][-1]["file_id"] for a photo, msg[t]["file_id"] otherwise
file_id_of(m) ==
    IF m.media.type = "photo" THEN m.media.files[Len(m.media.files)]
    ELSE m.media.files[1]

EnsureApiKeyUnchecked(p) ==
    /\ pc[p] = "start"
    /\ ~IsCommand(text(p))
    /\ user_api' = [user_api EXCEPT ![p] = get_api_key(user_apis_col, user_id(p))]
    /\ Touch(p)
    /\ pc' = [pc EXCEPT ![p] = "settings"]
    /\ UNCHANGED <<stores, env, calls, sent, settings, original_text, urls, idx,
                   longURL, newShort, url_mapping, converted_links>>

\* user_api = get_api_key(user_id); if not user_api: ... return
EnsureApiKey(p) ==
    /\ pc[p] = "start"
    /\ ~IsCommand(text(p))
    /\ user_api' = [user_api EXCEPT ![p] = get_api_key(user_apis_col, user_id(p))]
    /\ Touch(p)
    /\ IF ~truthy(get_api_key(user_apis_col, user_id(p)))
       THEN Reply(p, Body("set_key", <<>>))
       ELSE pc' = [pc EXCEPT ![p] = "settings"] /\ UNCHANGED sent
    /\ UNCHANGED <<stores, env, calls, settings, original_text, urls, idx,
                   longURL, newShort, url_mapping, converted_links>>

\* settings = get_user_settings(user_id), the choice of the text, extract_urls
GetSettings(p) ==
    /\ pc[p] = "settings"
    /\ settings' = [settings EXCEPT ![p] =
                        get_user_settings(user_settings_col, user_id(p))]
    /\ Touch(p)
    /\ original_text' = [original_text EXCEPT ![p] = resolved_text(msg[p])]
    /\ urls' = [urls EXCEPT ![p] = extract_urls(resolved_text(msg[p]))]
    /\ IF extract_urls(resolved_text(msg[p])) = <<>>
       THEN Reply(p, Body("no_valid_link", <<>>))
       ELSE pc' = [pc EXCEPT ![p] = "loop"] /\ UNCHANGED sent
    /\ UNCHANGED <<stores, env, calls, user_api, idx, longURL, newShort,
                   url_mapping, converted_links>>

\* Leaving the loop over the URLs with break: the reply is built all the same.
url_error_break == "respond"

\* The return after the error reply of a URL that cannot be converted
url_error_exit == "done"

UrlError(p, body) ==
    /\ Send(p, send_message(chat_id(p), body))
    /\ pc' = [pc EXCEPT ![p] = url_error_exit]

\* The head of an iteration: is_viralbox(url), find_long_url(url)
UrlLookup(p) ==
    /\ pc[p] = "loop"
    /\ LET url == urls[p][idx[p]]
           r   == find_long_url(links_col, url)
       IN  IF ~is_viralbox(url)
           THEN /\ UrlError(p, Body("unsupported", url))
                /\ UNCHANGED <<lookups, longURL>>
           ELSE /\ lookups' = [lookups EXCEPT ![p] =
                                   Append(@, [url |-> url, result |-> r])]
                /\ IF ~truthy(r)
                   THEN /\ UrlError(p, Body("not_found", url))
                        /\ UNCHANGED longURL
                   ELSE /\ longURL' = [longURL EXCEPT ![p] = r[1]]
                        /\ pc' = [pc EXCEPT ![p] = "shorten"]
                        /\ UNCHANGED sent
    /\ UNCHANGED <<stores, env, shortened, saved, touched, user_api, settings,
                   original_text, urls, idx, newShort, url_mapping,
                   converted_links>>

\* newShort = short_with_user_token(user_api, longURL)
Shorten(p) ==
    /\ pc[p] = "shorten"
    /\ LET r == short_with_user_token(user_api[p][1], longURL[p])
       IN  /\ shortened' = [shortened EXCEPT ![p] =
                                Append(@, [longURL |-> longURL[p], result |-> r])]
           /\ IF ~truthy(r)
              THEN /\ UrlError(p, Body("convert_failed", urls[p][idx[p]]))
                   /\ UNCHANGED newShort
              ELSE /\ newShort' = [newShort EXCEPT ![p] = r[1]]
                   /\ pc' = [pc EXCEPT ![p] = "save"]
                   /\ UNCHANGED sent
    /\ UNCHANGED <<stores, env, lookups, saved, touched, user_api, settings,
                   original_text, urls, idx, longURL, url_mapping,
                   converted_links>>

\* save_converted(longURL, newShort), the two appends, the next iteration
SaveConverted(p) ==
    /\ pc[p] = "save"
    /\ links_col' = save_converted(links_col, longURL[p], newShort[p])
    /\ saved' = [saved EXCEPT ![p] =
                     @ \o SubSeq(links_col', Len(links_col) + 1, Len(links_col'))]
    /\ url_mapping' = [url_mapping EXCEPT ![p] =
                           dict_set(@, urls[p][idx[p]], newShort[p])]
    /\ converted_links' = [converted_links EXCEPT ![p] = Append(@, newShort[p])]
    /\ idx' = [idx EXCEPT ![p] = @ + 1]
    /\ pc' = [pc EXCEPT ![p] =
                  IF idx[p] + 1 > Len(urls[p]) THEN "respond" ELSE "loop"]
    /\ UNCHANGED <<user_apis_col, user_settings_col, env, lookups, shortened,
                   touched, sent, user_api, settings, original_text, urls,
                   longURL, newShort>>

\* Header and footer put around every link instead of around the list.
response_parts_per_link(st, links) ==
    IF links = <<>> THEN <<>>
    ELSE <<join((IF truthy(st.header) THEN <<st.header[1]>> ELSE <<>>)
                   \o <<links[1]>>
                   \o (IF truthy(st.footer) THEN <<st.footer[1]>> ELSE <<>>),
                <<"\n", "\n">>)>>
             \o SubSeq(links, 2, Len(links))

\* parts: the header if set, the converted links, the footer if set
response_parts(st, links) ==
    (IF truthy(st.header) THEN <<st.header[1]>> ELSE <<>>)
        \o links
        \o (IF truthy(st.footer) THEN <<st.footer[1]>> ELSE <<>>)

build_response_text(st, original, mapping, links) ==
    IF st.keep_text THEN replace_urls_in_text(original, mapping)
    ELSE join(response_parts(st, links), <<"\n", "\n">>)

\* Build Response Text, Send Response
SendResponse(p) ==
    /\ pc[p] = "respond"
    /\ LET body == Body("converted",
                        build_response_text(settings[p], original_text[p],
                                            url_mapping[p], converted_links[p]))
       IN  IF msg[p].media.type = "none"
           THEN Send(p, send_message(chat_id(p), body))
           ELSE Send(p, send_media(chat_id(p), msg[p].media.type,
                                   file_id_of(msg[p]), body))
    /\ pc' = [pc EXCEPT ![p] = "done"]
    /\ UNCHANGED <<stores, env, locals, calls, touched>>

\* executor.submit(process_message, ...): the invocations run in parallel,
\* each a sequence of the steps above
Next ==
    \E p \in Procs :
        \/ CmdStart(p)
        \/ CmdHelp(p)
        \/ CmdSetApi(p)
        \/ CmdSetHeader(p)
        \/ CmdDeleteHeader(p)
        \/ CmdSetFooter(p)
        \/ CmdDeleteFooter(p)
        \/ CmdKeepText(p)
        \/ CmdDeleteText(p)
        \/ EnsureApiKey(p)
        \/ GetSettings(p)
        \/ UrlLookup(p)
        \/ Shorten(p)
        \/ SaveConverted(p)
        \/ SendResponse(p)

Spec == Init /\ [][Next]_vars

----------------------------------------------------------------------------
\* Two invocations in parallel on the worker pool: two messages of a group
\* chat, each of either user, over the same collections.

ConcTexts ==
    {<<c, " ", "x">> : c \in Commands} \cup {<<"/set_header">>}
        \cup {U1, S1, O1, W, join(<<U1, U3>>, <<" ">>), join(<<U1, S1>>, <<" ">>)}

ConcMessages ==
    {TextMessage(g, u, t) : g \in GroupChat, u \in Users, t \in ConcTexts}

InitConc ==
    /\ msg \in [Procs -> ConcMessages]
    /\ pc = [p \in Procs |-> "start"]
    /\ user_apis_col =
           [u \in Ids |-> IF u = 1 THEN <<K1>> ELSE IF u = 2 THEN <<K2>> ELSE <<>>]
    /\ user_settings_col =
           [u \in Ids |-> IF u = 1 THEN [exists |-> TRUE, header |-> <<Hdr>>,
                                         footer |-> <<>>, keep_text |-> <<>>]
                          ELSE IF u = 2 THEN [exists |-> TRUE, header |-> <<>>,
                                              footer |-> <<Ftr>>,
                                              keep_text |-> <<TRUE>>]
                          ELSE NoDoc]
    /\ links_col = InitialLinks
    /\ shortener = Table(BothSucceed, BothSucceed)
    /\ InitLocals
    /\ InitSnapshot

SpecConc == InitConc /\ [][Next]_vars

\* What process_message sends and inserts for message m when it runs from
\* start to end with no other invocation in between, on the collections
\* apis, sets and links: the steps above, composed in program order.
Result(messages, docs) == [sent |-> messages, saved |-> docs]

RECURSIVE urls_alone(_, _, _, _, _, _, _, _, _)
urls_alone(m, apikey, st, us, j, links, mapping, conv, docs) ==
    IF j > Len(us)
    THEN LET body == Body("converted",
                          build_response_text(st, resolved_text(m), mapping, conv))
         IN  Result(<<IF m.media.type = "none"
                      THEN send_message(m.chat, body)
                      ELSE send_media(m.chat, m.media.type, file_id_of(m), body)>>,
                    docs)
    ELSE IF ~is_viralbox(us[j])
    THEN Result(<<send_message(m.chat, Body("unsupported", us[j]))>>, docs)
    ELSE IF ~truthy(find_long_url(links, us[j]))
    THEN Result(<<send_message(m.chat, Body("not_found", us[j]))>>, docs)
    ELSE LET long == find_long_url(links, us[j])[1]
             r    == short_with_user_token(apikey, long)
         IN  IF ~truthy(r)
             THEN Result(<<send_message(m.chat, Body("convert_failed", us[j]))>>,
                         docs)
             ELSE urls_alone(m, apikey, st, us, j + 1,
                             save_converted(links, long, r[1]),
                             dict_set(mapping, us[j], r[1]),
                             Append(conv, r[1]),
                             Append(docs, LinkDoc(long, r[1])))

command_alone(m, apis) ==
    LET t     == m.text
        parts == command_parts(t)
        one(kind, arg) == Result(<<send_message(m.chat, Body(kind, arg))>>, <<>>)
    IN  IF startswith(t, "/start")
        THEN one(IF truthy(get_api_key(apis, m.user)) THEN "send_a_link"
                                                      ELSE "welcome", <<>>)
        ELSE IF startswith(t, "/help") THEN one("help", <<>>)
        ELSE IF startswith(t, "/set_api")
        THEN one(IF Len(parts) < 2 THEN "usage_set_api" ELSE "api_saved", <<>>)
        ELSE IF startswith(t, "/set_header")
        THEN IF Len(parts) < 2 THEN one("usage_header", <<>>)
             ELSE one("header_saved", strip(parts[2]))
        ELSE IF startswith(t, "/delete_header") THEN one("header_deleted", <<>>)
        ELSE IF startswith(t, "/set_footer")
        THEN IF Len(parts) < 2 THEN one("usage_footer", <<>>)
             ELSE one("footer_saved", strip(parts[2]))
        ELSE IF startswith(t, "/delete_footer") THEN one("footer_deleted", <<>>)
        ELSE IF startswith(t, "/keep_text") THEN one("keep_text_on", <<>>)
        ELSE one("keep_text_off", <<>>)

process_message_alone(m, apis, sets, links) ==
    IF IsCommand(m.text) THEN command_alone(m, apis)
    ELSE IF ~truthy(get_api_key(apis, m.user))
    THEN Result(<<send_message(m.chat, Body("set_key", <<>>))>>, <<>>)
    ELSE IF extract_urls(resolved_text(m)) = <<>>
    THEN Result(<<send_message(m.chat, Body("no_valid_link", <<>>))>>, <<>>)
    ELSE urls_alone(m, get_api_key(apis, m.user)[1], get_user_settings(sets, m.user),
                    extract_urls(resolved_text(m)), 1, links, <<>>, <<>>, <<>>)

----------------------------------------------------------------------------
\* Vocabulary of the properties

Active(p) == pc[p] # "idle"
Done(p)   == pc[p] = "done"
Sender(p) == msg[p].user

\* The kind of the first outbound message of p
Kind(p) == sent[p][1].body.kind

ErrorTo(p, kind, arg) == send_message(msg[p].chat, Body(kind, arg))

\* The URLs of the message, in extraction order
Extracted(p) == extract_urls(resolved_text(msg[p]))

\* A qualifying URL: its host contains the target domain
Qualifying(u) == \E k \in 2..Len(u) : u[k] = "v" /\ \A j \in 2..k : u[j] # "/"

\* p handles a message that is no command, of a user with a saved key
KeyedNonCommand(p) ==
    Active(p) /\ ~IsCommand(msg[p].text) /\ truthy(apis0[Sender(p)])

CredentialsUnchanged == user_apis_col = apis0
PreferencesUnchanged == user_settings_col = settings0
NoStoreWrite ==
    CredentialsUnchanged /\ PreferencesUnchanged /\ links_col = links0

\* The k-th long URL p resolved and the k-th short URL it obtained
LongOf(p, k)  == lookups[p][k].result[1]
ShortOf(p, k) == shortened[p][k].result[1]

\* The number of URLs p has shortened with success
Shortenings(p) ==
    Cardinality({k \in 1..Len(shortened[p]) : truthy(shortened[p][k].result)})

\* p answered with the converted text and the user is in replace / keep mode
Converted(p) == sent[p] # <<>> /\ Kind(p) = "converted"
Prefs(p) == get_user_settings(settings0, Sender(p))

----------------------------------------------------------------------------
\* C1 (fail-fast): the URLs are looked up in extraction order, and when the
\* N-th URL is the first whose lookup misses or whose shortening fails, no
\* URL after it is looked up or shortened, the invocation has ended, and its
\* only outbound message is the error reply that names the N-th URL.
C1_FailFast ==
    \A p \in Procs : \A n \in 1..Len(lookups[p]) :
        LET miss == ~truthy(lookups[p][n].result)
            fail == n <= Len(shortened[p]) /\ ~truthy(shortened[p][n].result)
        IN  /\ n <= Len(urls[p]) /\ lookups[p][n].url = Extracted(p)[n]
            /\ (miss \/ fail) =>
                   /\ Len(lookups[p]) = n
                   /\ Len(shortened[p]) = IF miss THEN n - 1 ELSE n
                   /\ Done(p)
                   /\ sent[p] = <<ErrorTo(p, IF miss THEN "not_found"
                                                    ELSE "convert_failed",
                                          Extracted(p)[n])>>

\* The second URL failed, after the first was converted, and at least one
\* URL stands after it in the message.
C1_Witness ==
    \E p \in Procs :
        /\ Done(p) /\ Len(lookups[p]) = 2 /\ saved[p] # <<>>
        /\ Len(Extracted(p)) > Len(lookups[p])
        /\ sent[p] # <<>> /\ Kind(p) \in {"not_found", "convert_failed"}

\* C2 as stated: a message without a qualifying URL, of a user with a key,
\* gets the one "no valid link" reply and writes nothing.
C2_NoValidLinkReply ==
    \A p \in Procs :
        (KeyedNonCommand(p) /\ Done(p)
            /\ \A k \in 1..Len(Extracted(p)) : ~Qualifying(Extracted(p)[k]))
        => /\ sent[p] = <<ErrorTo(p, "no_valid_link", <<>>)>>
           /\ NoStoreWrite

\* C2 (amended): such a message gets exactly one reply and writes nothing,
\* and no URL is looked up or shortened; the reply is "no valid link" when
\* the text holds no URL at all, and the "only viralbox.in links are
\* supported" error naming the first URL of the text when it holds URLs of
\* other domains.
C2_NoQualifyingUrl ==
    \A p \in Procs :
        (KeyedNonCommand(p) /\ Done(p)
            /\ \A k \in 1..Len(Extracted(p)) : ~Qualifying(Extracted(p)[k]))
        => /\ sent[p] = <<IF Extracted(p) = <<>>
                          THEN ErrorTo(p, "no_valid_link", <<>>)
                          ELSE ErrorTo(p, "unsupported", Extracted(p)[1])>>
           /\ NoStoreWrite
           /\ lookups[p] = <<>> /\ shortened[p] = <<>>

\* A finished message whose only URLs are of another domain.
C2_Witness ==
    \E p \in Procs :
        /\ KeyedNonCommand(p) /\ Done(p)
        /\ Extracted(p) # <<>>
        /\ \A k \in 1..Len(Extracted(p)) : ~Qualifying(Extracted(p)[k])

\* The reply of replace mode, with the short URLs separated by sep
ReplaceText(p, sep) ==
    LET blank == <<"\n", "\n">>
        links == [k \in 1..Len(shortened[p]) |-> ShortOf(p, k)]
    IN  (IF truthy(Prefs(p).header) THEN Prefs(p).header[1] \o blank ELSE <<>>)
            \o join(links, sep)
            \o (IF truthy(Prefs(p).footer) THEN blank \o Prefs(p).footer[1]
                                           ELSE <<>>)

\* C3 as stated: in replace mode the reply is the header, the short URLs as
\* one paragraph with one URL per line, and the footer.
C3_LinksOneParagraph ==
    \A p \in Procs :
        (Converted(p) /\ ~Prefs(p).keep_text)
        => sent[p][1].body.arg = ReplaceText(p, <<"\n">>)

\* C3 (amended): in replace mode the reply is, in order, the header if set,
\* every newly produced short URL in extraction order, and the footer if
\* set, each of them a paragraph of its own and all joined by a blank line.
C3_ReplaceMode ==
    \A p \in Procs :
        (Converted(p) /\ ~Prefs(p).keep_text)
        => /\ Len(shortened[p]) = Len(Extracted(p))
           /\ sent[p][1].body.arg = ReplaceText(p, <<"\n", "\n">>)

\* A replace-mode reply with a header, a footer and two converted URLs.
C3_Witness ==
    \E p \in Procs :
        /\ Converted(p) /\ ~Prefs(p).keep_text
        /\ truthy(Prefs(p).header) /\ truthy(Prefs(p).footer)
        /\ Len(shortened[p]) >= 2

RECURSIVE RewriteMatches(_, _, _, _)
\* t from position j on, with the k-th URL match and every later one
\* replaced by its short URL, and every other symbol kept.
RewriteMatches(t, j, k, shorts) ==
    IF j > Len(t) THEN <<>>
    ELSE IF t[j] = "H" /\ j + 1 <= Len(t) /\ ~IsSpace(t[j + 1])
         THEN shorts[k] \o RewriteMatches(t, NextSpace(t, j + 1), k + 1, shorts)
         ELSE <<t[j]>> \o RewriteMatches(t, j + 1, k, shorts)

\* C4: in keep mode the reply is the resolved text with every extracted URL
\* replaced by the short URL produced for it and every other character
\* unchanged.
C4_KeepMode ==
    \A p \in Procs :
        (Converted(p) /\ Prefs(p).keep_text)
        => sent[p][1].body.arg =
               RewriteMatches(resolved_text(msg[p]), 1, 1,
                              [k \in 1..Len(shortened[p]) |-> ShortOf(p, k)])

\* p rejected its message for a URL of another domain or a URL the link
\* store does not hold
Rejected(p) ==
    Done(p) /\ sent[p] # <<>> /\ Kind(p) \in {"unsupported", "not_found"}

\* C5 as stated: a rejected message gets one reply and no store is changed.
C5_RejectedNoMutation ==
    \A p \in Procs : Rejected(p) => Len(sent[p]) = 1 /\ NoStoreWrite

\* C5 (amended): a rejected message gets exactly one reply, which names the
\* offending URL, and the credential and preference stores are unchanged;
\* the link store has gained one record per URL that stands before the
\* offending one (all of them converted), and nothing else: no record when
\* the offending URL is the first.
C5_Rejected ==
    \A p \in Procs :
        Rejected(p)
        => /\ Len(sent[p]) = 1
           /\ idx[p] \in 1..Len(Extracted(p))
           /\ sent[p][1].body.arg = Extracted(p)[idx[p]]
           /\ CredentialsUnchanged /\ PreferencesUnchanged
           /\ links_col = links0 \o [k \in 1..(idx[p] - 1) |->
                                        LinkDoc(LongOf(p, k), ShortOf(p, k))]

\* A message rejected for its second URL, after the first was converted.
C5_Witness ==
    \E p \in Procs : Rejected(p) /\ idx[p] = 2 /\ Len(links_col) > Len(links0)

\* C6: a message that is no command, of a user without a saved credential,
\* produces exactly one "set your key" reply and ends there: no store is
\* written and no link is looked up or shortened.
C6_NoCredential ==
    \A p \in Procs :
        (Active(p) /\ ~IsCommand(msg[p].text) /\ ~truthy(apis0[Sender(p)])
            /\ pc[p] # "start")
        => /\ Done(p)
           /\ sent[p] = <<ErrorTo(p, "set_key", <<>>)>>
           /\ NoStoreWrite
           /\ lookups[p] = <<>> /\ shortened[p] = <<>> /\ saved[p] = <<>>

\* A user without a key has sent an attachment whose caption holds a link.
C6_Witness ==
    \E p \in Procs :
        /\ Done(p) /\ ~truthy(apis0[Sender(p)])
        /\ msg[p].media.type # "none"
        /\ \E k \in 1..Len(Extracted(p)) : Qualifying(Extracted(p)[k])

\* The three commands that take an argument, and the field each one sets
SetCommand(p) ==
    Active(p) /\ msg[p].text # <<>>
        /\ msg[p].text[1] \in {"/set_api", "/set_header", "/set_footer"}

\* Nothing but whitespace follows the first token of the text
NoArgument(t) == \A k \in NextSpace(t, 1)..Len(t) : IsSpace(t[k])

\* The whole text after the first whitespace run
Remainder(t) == SubSeq(t, NextNonSpace(t, NextSpace(t, 1)), Len(t))

\* v is the remainder of t without the whitespace at its two ends
TrimmedRemainder(t, v) ==
    /\ v # <<>> /\ ~IsSpace(v[1]) /\ ~IsSpace(v[Len(v)])
    /\ \E a \in 1..Len(t) :
          /\ a + Len(v) - 1 <= Len(t)
          /\ SubSeq(t, a, a + Len(v) - 1) = v
          /\ a > NextSpace(t, 1)
          /\ \A k \in NextSpace(t, 1)..(a - 1) : IsSpace(t[k])
          /\ \A k \in (a + Len(v))..Len(t) : IsSpace(t[k])

\* The value the command of p has stored, as an optional value
StoredBy(p) ==
    IF msg[p].text[1] = "/set_api" THEN user_apis_col[Sender(p)]
    ELSE IF msg[p].text[1] = "/set_header" THEN user_settings_col[Sender(p)].header
    ELSE user_settings_col[Sender(p)].footer

\* Everything but the field the command of p names is as it was
OnlyOwnFieldSet(p) ==
    LET c == msg[p].text[1]
        u == Sender(p)
        d == user_settings_col[u]
        e == settings0[u]
    IN  /\ links_col = links0
        /\ \A w \in Ids \ {u} :
               user_apis_col[w] = apis0[w] /\ user_settings_col[w] = settings0[w]
        /\ c # "/set_api" => user_apis_col[u] = apis0[u]
        /\ c # "/set_header" => d.header = e.header
        /\ c # "/set_footer" => d.footer = e.footer
        /\ d.keep_text = e.keep_text

UsageReply(p) ==
    ErrorTo(p, IF msg[p].text[1] = "/set_api" THEN "usage_set_api"
               ELSE IF msg[p].text[1] = "/set_header" THEN "usage_header"
               ELSE "usage_footer", <<>>)

Confirmation(p, v) ==
    IF msg[p].text[1] = "/set_api" THEN ErrorTo(p, "api_saved", <<>>)
    ELSE IF msg[p].text[1] = "/set_header" THEN ErrorTo(p, "header_saved", v)
    ELSE ErrorTo(p, "footer_saved", v)

\* C7 as stated: without an argument one usage reply and no change; with
\* one, the field is set to the whole remainder of the text.
C7_WholeRemainder ==
    \A p \in Procs :
        (SetCommand(p) /\ Done(p))
        => IF NoArgument(msg[p].text)
           THEN sent[p] = <<UsageReply(p)>> /\ NoStoreWrite
           ELSE /\ StoredBy(p) = <<Remainder(msg[p].text)>>
                /\ OnlyOwnFieldSet(p)
                /\ Len(sent[p]) = 1

\* C7 (amended): without an argument, exactly one fixed usage reply and the
\* credential and preference records are unchanged; with one, exactly the
\* corresponding field is set to the remainder of the text after the first
\* whitespace run, with the whitespace at its end removed (whitespace inside
\* it is kept), and exactly one confirmation reply is sent.
C7_SetCommands ==
    \A p \in Procs :
        (SetCommand(p) /\ Done(p))
        => IF NoArgument(msg[p].text)
           THEN sent[p] = <<UsageReply(p)>> /\ NoStoreWrite
           ELSE /\ Len(StoredBy(p)) = 1
                /\ TrimmedRemainder(msg[p].text, StoredBy(p)[1])
                /\ OnlyOwnFieldSet(p)
                /\ sent[p] = <<Confirmation(p, StoredBy(p)[1])>>

\* A /set_header whose argument holds whitespace has been stored over an
\* older header.
C7_Witness ==
    \E p \in Procs :
        /\ SetCommand(p) /\ Done(p) /\ msg[p].text[1] = "/set_header"
        /\ truthy(settings0[Sender(p)].header)
        /\ truthy(StoredBy(p))
        /\ \E k \in 1..Len(StoredBy(p)[1]) : IsSpace(StoredBy(p)[1][k])

\* The field a command names ("none" for /start and /help)
NamedField(c) ==
    IF c = "/set_api" THEN "apiKey"
    ELSE IF c \in {"/set_header", "/delete_header"} THEN "header"
    ELSE IF c \in {"/set_footer", "/delete_footer"} THEN "footer"
    ELSE IF c \in {"/keep_text", "/delete_text"} THEN "keep_text"
    ELSE "none"

\* C8: a command gets exactly one reply and ends without any URL
\* processing, and it changes at most the field it names in the record of
\* the sending user; a delete command removes its own field and leaves the
\* key and the other preference fields as they were.
C8_CommandDispatch ==
    \A p \in Procs :
        (Active(p) /\ IsCommand(msg[p].text) /\ pc[p] # "start")
        => LET c == msg[p].text[1]
               u == Sender(p)
               d == user_settings_col[u]
               e == settings0[u]
           IN  /\ Done(p) /\ Len(sent[p]) = 1
               /\ lookups[p] = <<>> /\ shortened[p] = <<>> /\ saved[p] = <<>>
               /\ links_col = links0
               /\ \A w \in Ids \ {u} :
                      /\ user_apis_col[w] = apis0[w]
                      /\ user_settings_col[w] = settings0[w]
               /\ NamedField(c) # "apiKey" => user_apis_col[u] = apis0[u]
               /\ \A f \in {"header", "footer", "keep_text"} :
                      NamedField(c) # f => d[f] = e[f]
               /\ c \in {"/delete_header", "/delete_footer"}
                      => d[NamedField(c)] = <<>>

\* /delete_header, followed by a link, of a user who has a key, a header, a
\* footer and the keep-text flag.
C8_Witness ==
    \E p \in Procs :
        /\ Done(p) /\ startswith(msg[p].text, "/delete_header")
        /\ Extracted(p) # <<>>
        /\ truthy(apis0[Sender(p)])
        /\ truthy(settings0[Sender(p)].header)
        /\ truthy(settings0[Sender(p)].footer)
        /\ settings0[Sender(p)].keep_text = <<TRUE>>

\* C9: when an invocation on the URL path has sent its message, the link
\* store has gained exactly one record (resolved long URL, new short URL)
\* per URL shortened so far: one per extracted URL when the converted text
\* was sent, and the records of the URLs before the N-th when the N-th
\* failed.
C9_PersistenceMatches ==
    \A p \in Procs :
        (Active(p) /\ sent[p] # <<>>
            /\ Kind(p) \in {"converted", "unsupported", "not_found",
                            "convert_failed"})
        => LET n == Shortenings(p)
           IN  /\ Len(sent[p]) = 1
               /\ links_col = links0 \o [k \in 1..n |->
                                            LinkDoc(LongOf(p, k), ShortOf(p, k))]
               /\ \A k \in 1..n : lookups[p][k].url = Extracted(p)[k]
               /\ IF Kind(p) = "converted" THEN n = Len(Extracted(p))
                                           ELSE n = idx[p] - 1

\* Two qualifying URLs, the second not in the store: one reply naming it,
\* one record persisted.
C9_Witness ==
    \E p \in Procs :
        /\ sent[p] # <<>> /\ Kind(p) = "not_found"
        /\ Len(Extracted(p)) = 2
        /\ sent[p][1].body.arg = Extracted(p)[2]
        /\ Len(links_col) = Len(links0) + 1

\* What an invocation sent and inserted, and what it sends and inserts when
\* it is the only message processed
Outcome(p) == Result(sent[p], saved[p])
Alone(p)   == process_message_alone(msg[p], apis0, settings0, links0)

\* p ended with an error reply
Failed(p) ==
    Done(p) /\ sent[p] # <<>>
        /\ Kind(p) \in {"usage_set_api", "usage_header", "usage_footer",
                        "set_key", "no_valid_link", "unsupported", "not_found",
                        "convert_failed"}

\* An invocation uses no other key of the credential and preference
\* collections than the id of the sender of its message, and the documents
\* of an id that sent no message are never changed.
OwnRecordsOnly ==
    /\ \A p \in Procs : touched[p] \subseteq {msg[p].user}
    /\ \A w \in Ids \ {msg[p].user : p \in Procs} :
           user_apis_col[w] = apis0[w] /\ user_settings_col[w] = settings0[w]

\* C10 as stated: every invocation works on its own user's records only,
\* and an invocation that failed leaves the reply and the records of the
\* other invocation as they are without it.
C10_FailureIsolated ==
    /\ OwnRecordsOnly
    /\ \A p, q \in Procs :
           (p # q /\ Failed(p) /\ Done(q)) => Outcome(q) = Alone(q)

\* C10 (amended): every invocation reads and writes only the credential and
\* preference record of its own user, and an invocation that failed before
\* it persisted any short-link record leaves the reply and the persisted
\* records of the other invocation as they are without it. (An invocation
\* that fails at a later URL has persisted the records of the URLs before
\* it, and another message that holds one of these new short URLs then
\* resolves it.)
C10_Isolation ==
    /\ OwnRecordsOnly
    /\ \A p, q \in Procs :
           (p # q /\ Failed(p) /\ saved[p] = <<>> /\ Done(q))
           => Outcome(q) = Alone(q)

\* A failed invocation of one user beside a conversion of another user that
\* persisted a record.
C10_Witness ==
    \E p, q \in Procs :
        /\ p # q /\ Failed(p) /\ saved[p] = <<>> /\ lookups[p] # <<>>
        /\ Done(q) /\ saved[q] # <<>>
        /\ msg[p].user # msg[q].user

====
